---- MODULE Spec2Model ----
(***************************************************************************)
(* Character-level LSTM trainer (lstm.py): the training loop, the gradient *)
(* checker, forward, backward and sample.                                  *)
(*                                                                         *)
(* Reals are fixed-point integers with ONE units per 1.0.  exp, log,       *)
(* sigmoid and tanh are monotone piecewise-linear integer functions; every *)
(* other arithmetic step follows the source line by line.  Tensors are     *)
(* flat row-major sequences (numpy's .flat order); vocabulary indices are  *)
(* 0-based as in the source, sequence positions are 1-based.               *)
(***************************************************************************)
EXTENDS Integers, Sequences, FiniteSets, TLC

\* ---------------------------------------------------------------- bounds
ONE == 1000
emb_size == 1
hidden_size == 1
seq_length == 2
MaxData == 8
MaxUpdates == 3
SampleEvery == 2
SampleLen == 2
MaxSampleN == 2
MaxChunk == 2

\* ------------------------------------------------------ program constants
concat_size == emb_size + hidden_size
delta == 1
LrNum == 5
LrDen == 100
ClipBound == 5 * ONE
Eps == 1

ParamNames == {"Wex", "Wf", "Wi", "Wo", "Wc", "bf", "bi", "bo", "bc", "Why", "by"}

\* ------------------------------------------------------------ arithmetic
Min(a, b) == IF a < b THEN a ELSE b
Max(a, b) == IF a > b THEN a ELSE b
Clamp(x, lo, hi) == Max(lo, Min(hi, x))
Abs(x) == IF x < 0 THEN -x ELSE x
Mul(a, b) == (a * b) \div ONE

RECURSIVE SumSeq(_)
SumSeq(s) == IF s = <<>> THEN 0 ELSE s[1] + SumSeq(Tail(s))

RECURSIVE MaxSeq(_)
MaxSeq(s) == IF Len(s) = 1 THEN s[1] ELSE Max(s[1], MaxSeq(Tail(s)))

\* the integer square root of x in lo..hi, by bisection
RECURSIVE ISqrtIn(_, _, _)
ISqrtIn(x, lo, hi) ==
  IF lo >= hi THEN lo
  ELSE LET mid == (lo + hi + 1) \div 2
       IN  IF mid * mid <= x THEN ISqrtIn(x, mid, hi) ELSE ISqrtIn(x, lo, mid - 1)
\* np.sqrt of a fixed-point value
Sqrt(x) == ISqrtIn(x * ONE, 0, 46340)

\* the array with the k elements f[1..k]
Vec(f, k) == SubSeq(f, 1, k)
Zeros(k) == Vec([i \in 1..k |-> 0], k)
VAdd(u, v) == Vec([i \in 1..Len(u) |-> u[i] + v[i]], Len(u))
VSub(u, v) == Vec([i \in 1..Len(u) |-> u[i] - v[i]], Len(u))
VMul(u, v) == Vec([i \in 1..Len(u) |-> Mul(u[i], v[i])], Len(u))
\* np.dot(M, v) for a rows x cols matrix M and a column vector v
Dot(M, rows, cols, v) ==
  Vec([i \in 1..rows |->
         SumSeq(Vec([j \in 1..cols |-> Mul(M[(i - 1) * cols + j], v[j])], cols))],
      rows)
\* np.dot(M.T, v) for a rows x cols matrix M and a column vector v of rows
DotT(M, rows, cols, v) ==
  Vec([j \in 1..cols |->
         SumSeq(Vec([i \in 1..rows |-> Mul(M[(i - 1) * cols + j], v[i])], rows))],
      cols)
\* np.dot(u, v.T): the outer product, flat row-major
Outer(u, v) ==
  Vec([k \in 1..(Len(u) * Len(v)) |->
         Mul(u[((k - 1) \div Len(v)) + 1], v[((k - 1) % Len(v)) + 1])],
      Len(u) * Len(v))
OneHot(ix, V) == Vec([j \in 1..V |-> IF j = ix + 1 THEN ONE ELSE 0], V)

\* piecewise-linear stand-ins for exp (on z <= 0), 1 / (1 + exp(-x)) and tanh
Exp(z) == Max(1, ONE + z)
Logistic(x) == Clamp((ONE \div 2) + (x \div 4), 0, ONE)
HardTanh(x) == Clamp(x, -ONE, ONE)
\* -log(q) for 0 <= q <= 1, as a decreasing linear function
NegLog1(q) == ONE - q
\* -np.log(q), elementwise
NegLog(q) == Vec([i \in 1..Len(q) |-> NegLog1(q[i])], Len(q))
\* np.tanh(x), elementwise
Tanh(x) == Vec([i \in 1..Len(x) |-> HardTanh(x[i])], Len(x))

sigmoid(x) == Vec([i \in 1..Len(x) |-> Logistic(x[i])], Len(x))
dsigmoid(y) == Vec([i \in 1..Len(y) |-> Mul(y[i], ONE - y[i])], Len(y))
dtanh(x) == Vec([i \in 1..Len(x) |-> ONE - Mul(x[i], x[i])], Len(x))
softmax(x) ==
  LET e_x == Vec([i \in 1..Len(x) |-> Exp(x[i] - MaxSeq(x))], Len(x))
  IN  Vec([i \in 1..Len(x) |-> (e_x[i] * ONE) \div SumSeq(e_x)], Len(x))

\* ------------------------------------------------------------ parameters
Rows(name, V) ==
  CASE name = "Wex" -> emb_size
    [] name \in {"Wf", "Wi", "Wo", "Wc", "bf", "bi", "bo", "bc"} -> hidden_size
    [] OTHER -> V
Cols(name, V) ==
  CASE name = "Wex" -> V
    [] name \in {"Wf", "Wi", "Wo", "Wc"} -> concat_size
    [] name = "Why" -> hidden_size
    [] OTHER -> 1
Size(name, V) == Rows(name, V) * Cols(name, V)

\* np.random.randn: one of a bounded family of draws, chosen by seed
NameNo(name) ==
  CASE name = "Wex" -> 1 [] name = "Wf" -> 2 [] name = "Wi" -> 3
    [] name = "Wo" -> 4 [] name = "Wc" -> 5 [] name = "Why" -> 6 [] OTHER -> 7
Randn(seed, name, k) ==
  (((seed * 31 + NameNo(name) * 17 + k * 7) % 5) - 2)
    * (IF seed = 1 THEN ONE ELSE IF name = "Why" THEN 1000 * ONE ELSE 8 * ONE)
InitParams(seed, V) ==
  [name \in ParamNames |->
     CASE name \in {"Wex", "Wf", "Wi", "Wo", "Wc"} ->
            Vec([k \in 1..Size(name, V) |-> Randn(seed, name, k) \div 10],
                Size(name, V))
       [] name = "Why" ->
            Vec([k \in 1..Size(name, V) |-> Randn(seed, name, k) \div 100],
                Size(name, V))
       [] OTHER -> Zeros(Size(name, V))]

\* --------------------------------------------------------------- forward
\* the cross-entropy of one timestep
lossAt(ps, ys) == SumSeq(VMul(NegLog(ps), ys))

\* the body of the loop of forward for one timestep: input index ix, target tgt
forwardCell(P, V, h, c, ix, tgt) ==
  LET xs == OneHot(ix, V)
      wes == Dot(P["Wex"], emb_size, V, xs)
      zs == h \o wes
      f_gate == sigmoid(VAdd(Dot(P["Wf"], hidden_size, concat_size, zs), P["bf"]))
      i_gate == sigmoid(VAdd(Dot(P["Wi"], hidden_size, concat_size, zs), P["bi"]))
      c_cand == Tanh(VAdd(Dot(P["Wc"], hidden_size, concat_size, zs), P["bc"]))
      cs == VAdd(VMul(f_gate, c), VMul(i_gate, c_cand))
      o_gate == sigmoid(VAdd(Dot(P["Wo"], hidden_size, concat_size, zs), P["bo"]))
      hs == VMul(o_gate, Tanh(cs))
      os == VAdd(Dot(P["Why"], V, hidden_size, hs), P["by"])
      ps == softmax(os)
      ys == OneHot(tgt, V)
  IN  [xs |-> xs, wes |-> wes, zs |-> zs, f_gate |-> f_gate, i_gate |-> i_gate,
       c_cand |-> c_cand, cs |-> cs, o_gate |-> o_gate, hs |-> hs, os |-> os,
       ps |-> ps, ys |-> ys]

\* the result so far, extended by the record of one more timestep
Record(acc, rec) ==
  [acc EXCEPT !.loss = @ + lossAt(rec.ps, rec.ys),
              !.steps = Append(@, rec),
              !.memory = <<rec.hs, rec.cs>>]

\* the loop of forward from timestep t on; acc is the result so far and
\* acc.memory the pair (hs[t-1], cs[t-1])
RECURSIVE forwardLoop(_, _, _, _, _, _)
forwardLoop(P, V, inputs, targets, t, acc) ==
  IF t > Len(inputs) THEN acc
  ELSE IF t > Len(targets) THEN [acc EXCEPT !.raised = TRUE]
  ELSE forwardLoop(P, V, inputs, targets, t + 1,
                   Record(acc, forwardCell(P, V, acc.memory[1], acc.memory[2],
                                           inputs[t], targets[t])))

\* variant: hs[-1], cs[-1] start from zero instead of the given memory
forward_unseeded(P, V, inputs, targets, memory) ==
  forwardLoop(P, V, inputs, targets, 1,
              [loss |-> 0, h0 |-> Zeros(hidden_size), c0 |-> Zeros(hidden_size),
               steps |-> <<>>,
               memory |-> <<Zeros(hidden_size), Zeros(hidden_size)>>,
               raised |-> FALSE])
\* loss, activations (hs[-1] and cs[-1] as h0 and c0), final memory; raised
\* when targets[t] is out of range
forward(P, V, inputs, targets, memory) ==
  forwardLoop(P, V, inputs, targets, 1,
              [loss |-> 0, h0 |-> memory[1], c0 |-> memory[2], steps |-> <<>>,
               memory |-> memory, raised |-> FALSE])

\* -------------------------------------------------------------- backward
\* the names of the gradient accumulators, each paired with its parameter
GradOf(dname) ==
  CASE dname = "dWex" -> "Wex" [] dname = "dWf" -> "Wf" [] dname = "dWi" -> "Wi"
    [] dname = "dWo" -> "Wo" [] dname = "dWc" -> "Wc" [] dname = "dbf" -> "bf"
    [] dname = "dbi" -> "bi" [] dname = "dbo" -> "bo" [] dname = "dbc" -> "bc"
    [] dname = "dWhy" -> "Why" [] OTHER -> "by"

\* variant: only the upper bound is applied
clip_upper(dparam) ==
  Vec([i \in 1..Len(dparam) |-> Min(dparam[i], ClipBound)], Len(dparam))
\* np.clip(dparam, -5, 5, out=dparam)
clip(dparam) ==
  Vec([i \in 1..Len(dparam) |-> Clamp(dparam[i], -ClipBound, ClipBound)], Len(dparam))
\* the tensors the clipping loop visits
ClipList == <<"Wex", "Wf", "Wi", "Wo", "Wc", "bf", "bi", "bo", "bc", "Why", "by">>
\* the order of the tuple backward returns
GradientsTuple == <<"Wex", "Wf", "Wi", "Wo", "Wc", "bf", "bi", "bo", "bc", "Why", "by">>

\* one iteration of the reversed loop of backward; g holds the accumulators
\* (keyed by their parameter) and the carried dhnext, dcnext
backwardStep(P, V, A, t, g) ==
  LET s == A.steps[t]
      cs_prev == IF t = 1 THEN A.c0 ELSE A.steps[t - 1].cs
      do == VSub(s.ps, s.ys)
      dh == VAdd(DotT(P["Why"], V, hidden_size, do), g.dhnext)
      tc == Tanh(s.cs)
      dh_o == VMul(VMul(dsigmoid(s.o_gate), dh), tc)
      dh_c == VAdd(VMul(VMul(s.o_gate, dh), dtanh(tc)), g.dcnext)
      dc_f == VMul(VMul(dsigmoid(s.f_gate), cs_prev), dh_c)
      dc_i == VMul(VMul(dsigmoid(s.i_gate), s.c_cand), dh_c)
      dc_c == VMul(VMul(dtanh(s.c_cand), s.i_gate), dh_c)
      dz_o == DotT(P["Wo"], hidden_size, concat_size, dh_o)
      dz_i == DotT(P["Wi"], hidden_size, concat_size, dc_i)
      dz_f == DotT(P["Wf"], hidden_size, concat_size, dc_f)
      dz_c == DotT(P["Wc"], hidden_size, concat_size, dc_c)
      dz == VAdd(VAdd(VAdd(dz_o, dz_i), dz_f), dz_c)
      dwes == SubSeq(dz, hidden_size + 1, concat_size)
      d == g.d
  IN  [d |-> [d EXCEPT !["Why"] = VAdd(@, Outer(do, s.hs)),
                       !["by"] = VAdd(@, do),
                       !["Wo"] = VAdd(@, Outer(dh_o, s.zs)),
                       !["Wf"] = VAdd(@, Outer(dc_f, s.zs)),
                       !["Wi"] = VAdd(@, Outer(dc_i, s.zs)),
                       !["Wc"] = VAdd(@, Outer(dc_c, s.zs)),
                       !["bo"] = VAdd(@, dh_o),
                       !["bf"] = VAdd(@, dc_f),
                       !["bi"] = VAdd(@, dc_i),
                       !["bc"] = VAdd(@, dc_c),
                       !["Wex"] = VAdd(@, Outer(dwes, s.xs))],
       dhnext |-> SubSeq(dz, 1, hidden_size),
       dcnext |-> VMul(s.f_gate, dh_c)]

RECURSIVE backwardLoop(_, _, _, _, _)
backwardLoop(P, V, A, t, g) ==
  IF t < 1 THEN g ELSE backwardLoop(P, V, A, t - 1, backwardStep(P, V, A, t, g))

\* the accumulated sums before the clipping loop
backwardSums(P, V, A, T) ==
  backwardLoop(P, V, A, T,
               [d |-> [name \in ParamNames |-> Zeros(Size(name, V))],
                dhnext |-> Zeros(hidden_size), dcnext |-> Zeros(hidden_size)]).d

\* T is len(inputs), read from the global by the loop of backward
backward(P, V, A, T, clipping) ==
  IF Len(A.steps) = 0 \/ T > Len(A.steps)
  THEN [gradients |-> <<>>, raised |-> TRUE]
  ELSE LET d == backwardSums(P, V, A, T)
           clipped == [name \in ParamNames |->
                         IF clipping /\ \E k \in 1..Len(ClipList) : ClipList[k] = name
                         THEN clip(d[name]) ELSE d[name]]
       IN  [gradients |-> [k \in 1..Len(GradientsTuple) |->
                             [of |-> GradientsTuple[k],
                              val |-> clipped[GradientsTuple[k]]]],
            raised |-> FALSE]

\* ---------------------------------------------------------------- sample
\* the recurrence of the loop body of sample, up to the softmax
sampleCell(P, V, h, c, x) ==
  LET wes == Dot(P["Wex"], emb_size, V, x)
      zs == h \o wes
      f_gate == sigmoid(VAdd(Dot(P["Wf"], hidden_size, concat_size, zs), P["bf"]))
      i_gate == sigmoid(VAdd(Dot(P["Wi"], hidden_size, concat_size, zs), P["bi"]))
      c_cand == Tanh(VAdd(Dot(P["Wc"], hidden_size, concat_size, zs), P["bc"]))
      c_new == VAdd(VMul(f_gate, c), VMul(i_gate, c_cand))
      o_gate == sigmoid(VAdd(Dot(P["Wo"], hidden_size, concat_size, zs), P["bo"]))
      h_new == VMul(o_gate, Tanh(c_new))
      os == VAdd(Dot(P["Why"], V, hidden_size, h_new), P["by"])
  IN  [h |-> h_new, c |-> c_new, ps |-> softmax(os)]

\* what np.random.multinomial(1, pvals) can return: one trial, so a count
\* vector with a single 1
Multinomial1(V) == {Vec([j \in 1..V |-> IF j = k THEN 1 ELSE 0], V) : k \in 1..V}
\* variant: the scan keeps the 1-based position
RECURSIVE ScanIndex_off(_, _, _)
ScanIndex_off(ix, j, index) ==
  IF j > Len(ix) THEN index
  ELSE ScanIndex_off(ix, j + 1, IF ix[j] = 1 THEN j ELSE index)
\* the scan "for j in range(len(ix)): if ix[j] == 1: index = j"
RECURSIVE ScanIndex(_, _, _)
ScanIndex(ix, j, index) ==
  IF j > Len(ix) THEN index
  ELSE ScanIndex(ix, j + 1, IF ix[j] = 1 THEN j - 1 ELSE index)

\* ------------------------------------------------------- training helpers
\* Python's s[a:b] for 0 <= a <= b
Slice(s, a, b) == SubSeq(s, a + 1, Min(b, Len(s)))
\* variant: the end-of-corpus test with > for >=
ResetCond_gt(cursor, iter, data_size) == cursor + seq_length + 1 > data_size \/ iter = 0
\* variant: the end-of-corpus test without room for the shifted target slice
ResetCond_late(cursor, iter, data_size) == cursor + seq_length > data_size \/ iter = 0
\* the test that resets the cursor and the recurrent state
ResetCond(cursor, iter, data_size) == cursor + seq_length + 1 >= data_size \/ iter = 0
\* variant: dWo and dWc swapped on the left-hand side
UnpackOrder_swapped == <<"dWex", "dWf", "dWi", "dWc", "dWo", "dbf", "dbi", "dbo", "dbc", "dWhy", "dby">>
\* the targets of the tuple assignment that unpacks the gradients
UnpackOrder == <<"dWex", "dWf", "dWi", "dWo", "dWc", "dbf", "dbi", "dbo", "dbc", "dWhy", "dby">>
\* the three lists zipped by the Adagrad update
ZipParams == <<"Wf", "Wi", "Wo", "Wc", "bf", "bi", "bo", "bc", "Wex", "Why", "by">>
ZipGrads == <<"dWf", "dWi", "dWo", "dWc", "dbf", "dbi", "dbo", "dbc", "dWex", "dWhy", "dby">>
ZipMems == <<"mWf", "mWi", "mWo", "mWc", "mbf", "mbi", "mbo", "mbc", "mWex", "mWhy", "mby">>
\* the parameter each momentum accumulator was allocated for (zeros_like)
MemOf(mname) ==
  CASE mname = "mWex" -> "Wex" [] mname = "mWf" -> "Wf" [] mname = "mWi" -> "Wi"
    [] mname = "mWo" -> "Wo" [] mname = "mWc" -> "Wc" [] mname = "mbf" -> "bf"
    [] mname = "mbi" -> "bi" [] mname = "mbo" -> "bo" [] mname = "mbc" -> "bc"
    [] mname = "mWhy" -> "Why" [] OTHER -> "by"
MemNames == {ZipMems[k] : k \in 1..Len(ZipMems)}
\* the three lists zipped by the gradient check
GcWeights == <<"Wf", "Wi", "Wo", "Wc", "bf", "bi", "bo", "bc", "Wex", "Why", "by">>
GcGrads == <<"dWf", "dWi", "dWo", "dWc", "dbf", "dbi", "dbo", "dbc", "dWex", "dWhy", "dby">>
GcNames == <<"Wf", "Wi", "Wo", "Wc", "bf", "bi", "bo", "bc", "Wex", "Why", "by">>

\* "mem += dparam * dparam" on one accumulator
AdagradMem(mem, dparam) == VAdd(mem, VMul(dparam, dparam))
\* "param += -learning_rate * dparam / np.sqrt(mem + 1e-8)"
AdagradParam(param, dparam, mem) ==
  Vec([i \in 1..Len(param) |->
         param[i] - ((LrNum * dparam[i] * ONE) \div (LrDen * Sqrt(mem[i] + Eps)))],
      Len(param))

\* variant: the assignment written as an in-place update of the array
Rebind_inplace(old, new) == new
\* an assignment "h = <expr>" binds the local name to a new array; the array
\* the name was bound to before (the caller's) keeps its value
Rebind(old, new) == old

\* the left-hand sides bound by unpacking a tuple, slot by slot
Unpacked(tuple) ==
  [dname \in {UnpackOrder[k] : k \in 1..Len(UnpackOrder)} |->
     tuple[CHOOSE k \in 1..Len(UnpackOrder) : UnpackOrder[k] = dname]]

\* ---------------------------------------------------------------- corpus
Corpus(pat, D) ==
  Vec([i \in 1..D |-> IF pat = 1 THEN "a"
                      ELSE IF pat = 2 THEN (IF i % 2 = 1 THEN "a" ELSE "b")
                      ELSE (IF i % 3 = 0 THEN "b" ELSE "a")], D)
Corpora == {Corpus(pat, D) : pat \in 1..3, D \in 0..MaxData}
CharsOf(text) == {text[i] : i \in 1..Len(text)}
\* enumerate(list(set(data))): any bijection onto 0..V-1
Enumerations(cs) ==
  {f \in [cs -> 0..(Cardinality(cs) - 1)] : \A c1, c2 \in cs : f[c1] = f[c2] => c1 = c2}
Encode(map, text) == Vec([i \in 1..Len(text) |-> map[text[i]]], Len(text))

\* ----------------------------------------------------------------- state
VARIABLES option, data, vocab_size, char_to_ix, max_updates, params, params0,
          pc, n, p, n_updates, mom, smooth_loss, hprev, cprev, inputs, targets,
          loss, activations, memory, gradients, dlocals, uk, sample_ix,
          s_h, s_c, s_x, s_t, s_n, s_alias, result,
          gk, gi, w, loss_positive, loss_negative, grad_analytic, grad_numerical,
          chunkA, chunkB, resA, resB, resAB

config == <<option, data, vocab_size, char_to_ix, max_updates, params0>>
loopv == <<n, p, n_updates, mom, smooth_loss, inputs, targets, loss, activations,
           memory, gradients, dlocals, uk, sample_ix>>
framev == <<s_h, s_c, s_x, s_t, s_n, s_alias, result>>
gcv == <<gk, gi, w, loss_positive, loss_negative, grad_analytic, grad_numerical>>
unitv == <<chunkA, chunkB, resA, resB, resAB>>
vars == <<config, params, pc, hprev, cprev, loopv, framev, gcv, unitv>>

NoActs == [h0 |-> <<>>, c0 |-> <<>>, steps |-> <<>>]
NoRes == [loss |-> 0, h0 |-> <<>>, c0 |-> <<>>, steps |-> <<>>, memory |-> <<>>,
          raised |-> FALSE]
NoChunk == [inputs |-> <<>>, targets |-> <<>>]

LoopBlank ==
  /\ n = 0 /\ p = 0 /\ n_updates = 0 /\ mom = <<>> /\ smooth_loss = 0
  /\ inputs = <<>> /\ targets = <<>> /\ loss = 0 /\ activations = NoActs
  /\ memory = <<>> /\ gradients = <<>> /\ dlocals = <<>> /\ uk = 0
  /\ sample_ix = <<>>
FrameBlank ==
  /\ s_h = <<>> /\ s_c = <<>> /\ s_x = <<>> /\ s_t = 0 /\ s_n = 0
  /\ s_alias = FALSE /\ result = <<>>
GcBlank ==
  /\ gk = 0 /\ gi = 0 /\ w = 0 /\ loss_positive = 0 /\ loss_negative = 0
  /\ grad_analytic = 0 /\ grad_numerical = 0
UnitBlank ==
  /\ chunkA = NoChunk /\ chunkB = NoChunk
  /\ resA = NoRes /\ resB = NoRes /\ resAB = NoRes

\* the state after lines 36-72: corpus read, vocabulary and parameters built
Startup ==
  /\ data \in Corpora
  /\ vocab_size = Cardinality(CharsOf(data))
  /\ char_to_ix \in Enumerations(CharsOf(data))
  /\ max_updates \in 0..MaxUpdates
  /\ \E seed \in 1..2 : params = InitParams(seed, vocab_size)
  /\ params0 = params

Init ==
  /\ Startup
  /\ option \in {"train", "gradcheck"}
  /\ pc = "main"
  /\ hprev = <<>> /\ cprev = <<>>
  /\ LoopBlank /\ FrameBlank /\ GcBlank /\ UnitBlank

\* ------------------------------------------------------------- train mode
\* lines 358-368; the initial smooth_loss divides by vocab_size
TrainInit ==
  /\ pc = "main" /\ option = "train"
  /\ n' = 0 /\ p' = 0 /\ n_updates' = 0
  /\ mom' = [m \in MemNames |-> Zeros(Size(MemOf(m), vocab_size))]
  /\ IF vocab_size = 0
     THEN pc' = "crashed" /\ UNCHANGED smooth_loss
     ELSE pc' = "loop_top" /\ smooth_loss' = NegLog1(ONE \div vocab_size) * seq_length
  /\ UNCHANGED <<config, params, hprev, cprev, inputs, targets, loss, activations,
                 memory, gradients, dlocals, uk, sample_ix, framev, gcv, unitv>>

\* lines 372-377 and the test of line 380
Prepare ==
  /\ pc = "loop_top"
  /\ LET reset == ResetCond(p, n, Len(data))
         cursor == IF reset THEN 0 ELSE p
     IN  /\ hprev' = IF reset THEN Zeros(hidden_size) ELSE hprev
         /\ cprev' = IF reset THEN Zeros(hidden_size) ELSE cprev
         /\ p' = cursor
         /\ inputs' = Encode(char_to_ix, Slice(data, cursor, cursor + seq_length))
         /\ targets' = Encode(char_to_ix, Slice(data, cursor + 1, cursor + seq_length + 1))
  /\ pc' = IF n % SampleEvery = 0 THEN "sample_call" ELSE "forward"
  /\ UNCHANGED <<config, params, n, n_updates, mom, smooth_loss, loss, activations,
                 memory, gradients, dlocals, uk, sample_ix, framev, gcv, unitv>>

\* line 381 and lines 294-297: the call sample((hprev, cprev), inputs[0], 200)
SampleCall ==
  /\ pc = "sample_call"
  /\ IF Len(inputs) = 0
     THEN pc' = "crashed" /\ UNCHANGED framev
     ELSE /\ pc' = "sample"
          /\ s_h' = hprev /\ s_c' = cprev /\ s_alias' = TRUE
          /\ s_x' = OneHot(inputs[1], vocab_size)
          /\ result' = <<>> /\ s_t' = 0 /\ s_n' = SampleLen
  /\ UNCHANGED <<config, params, hprev, cprev, loopv, gcv, unitv>>

\* one iteration of the loop of sample, lines 299-352
SampleStep ==
  /\ pc = "sample" /\ s_t < s_n
  /\ \E a \in {sampleCell(params, vocab_size, s_h, s_c, s_x)} :
       /\ s_h' = a.h /\ s_c' = a.c
       /\ hprev' = IF s_alias THEN Rebind(hprev, a.h) ELSE hprev
       /\ cprev' = IF s_alias THEN Rebind(cprev, a.c) ELSE cprev
  /\ s_alias' = FALSE
  /\ \E ix \in Multinomial1(vocab_size) :
       \E index \in {ScanIndex(ix, 1, -1)} :
         /\ s_x' = OneHot(index, vocab_size)
         /\ result' = Append(result, index)
  /\ s_t' = s_t + 1
  /\ UNCHANGED <<config, params, pc, loopv, s_n, gcv, unitv>>

\* line 354 and the caller's lines 381-383
SampleReturn ==
  /\ pc = "sample" /\ s_t >= s_n
  /\ sample_ix' = result
  /\ pc' = IF option = "train" THEN "forward" ELSE "returned"
  /\ UNCHANGED <<config, params, hprev, cprev, n, p, n_updates, mom, smooth_loss,
                 inputs, targets, loss, activations, memory, gradients, dlocals,
                 uk, framev, gcv, unitv>>

\* line 386
Forward ==
  /\ pc = "forward"
  /\ \E r \in {forward(params, vocab_size, inputs, targets, <<hprev, cprev>>)} :
       IF r.raised
       THEN pc' = "crashed" /\ UNCHANGED <<loss, activations, memory>>
       ELSE /\ pc' = "backward"
            /\ loss' = r.loss
            /\ activations' = [h0 |-> r.h0, c0 |-> r.c0, steps |-> r.steps]
            /\ memory' = r.memory
  /\ UNCHANGED <<config, params, hprev, cprev, n, p, n_updates, mom, smooth_loss,
                 inputs, targets, gradients, dlocals, uk, sample_ix, framev, gcv,
                 unitv>>

\* line 387
Backward ==
  /\ pc = "backward"
  /\ \E g \in {backward(params, vocab_size, activations, Len(inputs), TRUE)} :
       IF g.raised
       THEN pc' = "crashed" /\ UNCHANGED gradients
       ELSE pc' = "unpack" /\ gradients' = g.gradients
  /\ UNCHANGED <<config, params, hprev, cprev, n, p, n_updates, mom, smooth_loss,
                 inputs, targets, loss, activations, memory, dlocals, uk, sample_ix,
                 framev, gcv, unitv>>

\* lines 389-392
Unpack ==
  /\ pc = "unpack"
  /\ hprev' = memory[1] /\ cprev' = memory[2]
  /\ dlocals' = Unpacked(gradients)
  /\ smooth_loss' = (smooth_loss * 999 + loss) \div 1000
  /\ uk' = 1
  /\ pc' = "update"
  /\ UNCHANGED <<config, params, n, p, n_updates, mom, inputs, targets, loss,
                 activations, memory, gradients, sample_ix, framev, gcv, unitv>>

\* one iteration of the loop of lines 395-399
UpdateStep ==
  /\ pc = "update" /\ uk <= Len(ZipParams)
  /\ LET dparam == dlocals[ZipGrads[uk]].val
         mem == AdagradMem(mom[ZipMems[uk]], dparam)
     IN  /\ mom' = [mom EXCEPT ![ZipMems[uk]] = mem]
         /\ params' = [params EXCEPT ![ZipParams[uk]] = AdagradParam(@, dparam, mem)]
  /\ uk' = uk + 1
  /\ UNCHANGED <<config, pc, hprev, cprev, n, p, n_updates, smooth_loss, inputs,
                 targets, loss, activations, memory, gradients, dlocals, sample_ix,
                 framev, gcv, unitv>>

\* lines 401-405
Advance ==
  /\ pc = "update" /\ uk > Len(ZipParams)
  /\ p' = p + seq_length
  /\ n' = n + 1
  /\ n_updates' = n_updates + 1
  /\ pc' = IF n_updates + 1 >= max_updates THEN "done" ELSE "loop_top"
  /\ UNCHANGED <<config, params, hprev, cprev, mom, smooth_loss, inputs, targets,
                 loss, activations, memory, gradients, dlocals, uk, sample_ix,
                 framev, gcv, unitv>>

\* --------------------------------------------------------- gradcheck mode
\* lines 409-418
GradcheckInit ==
  /\ pc = "main" /\ option = "gradcheck"
  /\ p' = 0
  /\ inputs' = Encode(char_to_ix, Slice(data, 0, seq_length))
  /\ targets' = Encode(char_to_ix, Slice(data, 1, seq_length + 1))
  /\ hprev' = Zeros(hidden_size) /\ cprev' = Zeros(hidden_size)
  /\ memory' = <<Zeros(hidden_size), Zeros(hidden_size)>>
  /\ pc' = "gc_forward"
  /\ UNCHANGED <<config, params, n, n_updates, mom, smooth_loss, loss, activations,
                 gradients, dlocals, uk, sample_ix, framev, gcv, unitv>>

\* line 420
GcForward ==
  /\ pc = "gc_forward"
  /\ \E r \in {forward(params, vocab_size, inputs, targets, memory)} :
       IF r.raised
       THEN pc' = "crashed" /\ UNCHANGED <<loss, activations>>
       ELSE /\ pc' = "gc_backward"
            /\ loss' = r.loss
            /\ activations' = [h0 |-> r.h0, c0 |-> r.c0, steps |-> r.steps]
  /\ UNCHANGED <<config, params, hprev, cprev, n, p, n_updates, mom, smooth_loss,
                 inputs, targets, memory, gradients, dlocals, uk, sample_ix, framev,
                 gcv, unitv>>

\* lines 421-422
GcBackward ==
  /\ pc = "gc_backward"
  /\ \E g \in {backward(params, vocab_size, activations, Len(inputs), FALSE)} :
       IF g.raised
       THEN pc' = "crashed" /\ UNCHANGED <<gradients, dlocals, gk>>
       ELSE /\ pc' = "gc_zip" /\ gk' = 1
            /\ gradients' = g.gradients
            /\ dlocals' = Unpacked(g.gradients)
  /\ UNCHANGED <<config, params, hprev, cprev, n, p, n_updates, mom, smooth_loss,
                 inputs, targets, loss, activations, memory, uk, sample_ix, framev,
                 gi, w, loss_positive, loss_negative, grad_analytic, grad_numerical,
                 unitv>>

\* lines 424-431: the next zipped triple, its shape assertion
GcNextParam ==
  /\ pc = "gc_zip"
  /\ IF gk > Len(GcWeights)
     THEN pc' = "done" /\ UNCHANGED gi
     ELSE IF Len(params[GcWeights[gk]]) # Len(dlocals[GcGrads[gk]].val)
          THEN pc' = "crashed" /\ UNCHANGED gi
          ELSE pc' = "gc_elem" /\ gi' = 0
  /\ UNCHANGED <<config, params, hprev, cprev, loopv, framev, gk, w, loss_positive,
                 loss_negative, grad_analytic, grad_numerical, unitv>>

\* lines 432-436: the next element, perturbed by +delta
GcPerturbPlus ==
  /\ pc = "gc_elem"
  /\ IF gi >= Len(params[GcWeights[gk]])
     THEN /\ pc' = "gc_zip" /\ gk' = gk + 1
          /\ UNCHANGED <<params, w>>
     ELSE /\ pc' = "gc_forward_plus"
          /\ w' = params[GcWeights[gk]][gi + 1]
          /\ params' = [params EXCEPT ![GcWeights[gk]][gi + 1] = @ + delta]
          /\ UNCHANGED gk
  /\ UNCHANGED <<config, hprev, cprev, loopv, framev, gi, loss_positive,
                 loss_negative, grad_analytic, grad_numerical, unitv>>

\* line 437
GcForwardPlus ==
  /\ pc = "gc_forward_plus"
  /\ loss_positive' = forward(params, vocab_size, inputs, targets, memory).loss
  /\ pc' = "gc_minus"
  /\ UNCHANGED <<config, params, hprev, cprev, loopv, framev, gk, gi, w,
                 loss_negative, grad_analytic, grad_numerical, unitv>>

\* line 438
GcPerturbMinus ==
  /\ pc = "gc_minus"
  /\ params' = [params EXCEPT ![GcWeights[gk]][gi + 1] = w - delta]
  /\ pc' = "gc_forward_minus"
  /\ UNCHANGED <<config, hprev, cprev, loopv, framev, gcv, unitv>>

\* line 439
GcForwardMinus ==
  /\ pc = "gc_forward_minus"
  /\ loss_negative' = forward(params, vocab_size, inputs, targets, memory).loss
  /\ pc' = "gc_restore"
  /\ UNCHANGED <<config, params, hprev, cprev, loopv, framev, gk, gi, w,
                 loss_positive, grad_analytic, grad_numerical, unitv>>

\* variant: the element is not written back
GcRestore_lost ==
  /\ pc = "gc_restore"
  /\ grad_analytic' = dlocals[GcGrads[gk]].val[gi + 1]
  /\ grad_numerical' = ((loss_positive - loss_negative) * ONE) \div (2 * delta)
  /\ gi' = gi + 1
  /\ pc' = "gc_elem"
  /\ UNCHANGED <<config, params, hprev, cprev, loopv, framev, gk, w, loss_positive,
                 loss_negative, unitv>>
\* lines 440-449: restore the element, compare the two gradients
GcRestore ==
  /\ pc = "gc_restore"
  /\ params' = [params EXCEPT ![GcWeights[gk]][gi + 1] = w]
  /\ grad_analytic' = dlocals[GcGrads[gk]].val[gi + 1]
  /\ grad_numerical' = ((loss_positive - loss_negative) * ONE) \div (2 * delta)
  /\ gi' = gi + 1
  /\ pc' = "gc_elem"
  /\ UNCHANGED <<config, hprev, cprev, loopv, framev, gk, w, loss_positive,
                 loss_negative, unitv>>

Next ==
  \/ TrainInit \/ Prepare \/ SampleCall \/ SampleStep \/ SampleReturn
  \/ Forward \/ Backward \/ Unpack \/ UpdateStep \/ Advance
  \/ GradcheckInit \/ GcForward \/ GcBackward \/ GcNextParam \/ GcPerturbPlus
  \/ GcForwardPlus \/ GcPerturbMinus \/ GcForwardMinus \/ GcRestore

Spec == Init /\ [][Next]_vars

\* ------------------------------------------------- sample as a function
\* seed (hidden, cell) pairs handed to sample and forward
StateSeeds == {Zeros(hidden_size), Vec([i \in 1..hidden_size |-> ONE \div 2], hidden_size)}

\* the corpus, vocabulary and parameters of a run with a non-empty vocabulary
StartupNonEmpty ==
  /\ data \in Corpora
  /\ vocab_size = Cardinality(CharsOf(data))
  /\ vocab_size >= 1
  /\ char_to_ix \in Enumerations(CharsOf(data))
  /\ max_updates = 0
  /\ \E seed \in 1..2 : params = InitParams(seed, vocab_size)
  /\ params0 = params
  /\ option = "unit"

\* sample(memory, seed_ix, n) entered (lines 294-297) with memory = (hprev,
\* cprev), seed_ix = inputs[0] and n = s_n
InitSample ==
  /\ StartupNonEmpty
  /\ hprev \in StateSeeds /\ cprev \in StateSeeds
  /\ \E seed_ix \in 0..(vocab_size - 1) :
       inputs = <<seed_ix>> /\ s_x = OneHot(seed_ix, vocab_size)
  /\ s_n \in 0..MaxSampleN
  /\ s_h = hprev /\ s_c = cprev /\ s_alias = TRUE /\ result = <<>> /\ s_t = 0
  /\ pc = "sample"
  /\ n = 0 /\ p = 0 /\ n_updates = 0 /\ mom = <<>> /\ smooth_loss = 0
  /\ targets = <<>> /\ loss = 0 /\ activations = NoActs
  /\ memory = <<>> /\ gradients = <<>> /\ dlocals = <<>> /\ uk = 0
  /\ sample_ix = <<>>
  /\ GcBlank /\ UnitBlank

NextSample == SampleStep \/ SampleReturn

SpecSample == InitSample /\ [][NextSample]_vars

\* ------------------------------------------------ forward as a function
\* the chunk of len characters at cursor: inputs and shifted targets
Chunk(map, text, cursor, len) ==
  [inputs |-> Encode(map, Slice(text, cursor, cursor + len)),
   targets |-> Encode(map, Slice(text, cursor + 1, cursor + len + 1))]

\* two consecutive chunks A and B of the corpus and an initial state
InitForward ==
  /\ StartupNonEmpty
  /\ hprev \in StateSeeds /\ cprev \in StateSeeds
  /\ \E a \in 0..MaxChunk : \E b \in 0..MaxChunk :
       /\ a + b + 1 <= Len(data)
       /\ chunkA = Chunk(char_to_ix, data, 0, a)
       /\ chunkB = Chunk(char_to_ix, data, a, b)
  /\ resA = NoRes /\ resB = NoRes /\ resAB = NoRes
  /\ pc = "forward_A"
  /\ LoopBlank /\ FrameBlank /\ GcBlank

ForwardA ==
  /\ pc = "forward_A"
  /\ resA' = forward(params, vocab_size, chunkA.inputs, chunkA.targets, <<hprev, cprev>>)
  /\ pc' = "forward_B"
  /\ UNCHANGED <<config, params, hprev, cprev, loopv, framev, gcv, chunkA, chunkB,
                 resB, resAB>>

ForwardB ==
  /\ pc = "forward_B"
  /\ resB' = forward(params, vocab_size, chunkB.inputs, chunkB.targets, resA.memory)
  /\ pc' = "forward_AB"
  /\ UNCHANGED <<config, params, hprev, cprev, loopv, framev, gcv, chunkA, chunkB,
                 resA, resAB>>

ForwardAB ==
  /\ pc = "forward_AB"
  /\ resAB' = forward(params, vocab_size, chunkA.inputs \o chunkB.inputs,
                      chunkA.targets \o chunkB.targets, <<hprev, cprev>>)
  /\ pc' = "compared"
  /\ UNCHANGED <<config, params, hprev, cprev, loopv, framev, gcv, chunkA, chunkB,
                 resA, resB>>

NextForward == ForwardA \/ ForwardB \/ ForwardAB

SpecForward == InitForward /\ [][NextForward]_vars

\* ============================================================ properties
\* program positions inside, or at the call of, forward, backward or sample
CallPcs == {"sample_call", "sample", "forward", "backward", "gc_forward",
            "gc_backward", "gc_forward_plus", "gc_forward_minus"}
\* positions of a training iteration between chunk preparation and advance
IterPcs == {"sample_call", "sample", "forward", "backward", "unpack", "update"}
\* positions of the gradient check where the zipped triple gk is in use
GcTriplePcs == {"gc_elem", "gc_forward_plus", "gc_minus", "gc_forward_minus",
                "gc_restore"}
\* the parameter elements that differ from their value before the check
Perturbed ==
  {e \in UNION {{<<name, i>> : i \in 1..Len(params0[name])} : name \in ParamNames} :
     params[e[1]][e[2]] # params0[e[1]][e[2]]}

\* C1: in training mode the step that prepares a chunk zeroes (hprev, cprev)
\* and sets p to 0 exactly when n = 0 or p + seq_length + 1 >= len(data);
\* otherwise it leaves the pair returned by the previous forward and the
\* cursor, which the previous iteration advanced by seq_length; no other step
\* changes the recurrent state except the assignment from forward's memory.
C1_ResetOrCarry ==
  [][option = "train" =>
       /\ (pc = "loop_top" =>
             IF p + seq_length + 1 >= Len(data) \/ n = 0
             THEN hprev' = Zeros(hidden_size) /\ cprev' = Zeros(hidden_size) /\ p' = 0
             ELSE hprev' = memory[1] /\ cprev' = memory[2] /\ p' = p)
       /\ (pc = "update" /\ pc' # "update" => p' = p + seq_length)
       /\ (pc \in IterPcs /\ pc' \in IterPcs => p' = p)
       /\ (pc \in IterPcs /\ (hprev' # hprev \/ cprev' # cprev) =>
             pc = "unpack" /\ hprev' = memory[1] /\ cprev' = memory[2])]_vars

C1_Witness ==
  /\ option = "train" /\ pc = "forward" /\ n = 1 /\ p = seq_length
  /\ hprev = memory[1] /\ cprev = memory[2] /\ hprev # Zeros(hidden_size)

\* C2: every gradient slot backward returns is unpacked into the local named
\* for the same parameter, and every triple zipped by the Adagrad update and by
\* the gradient check pairs a parameter with its own gradient, its own momentum
\* accumulator and its own name; the zips cover all 11 parameters.
C2_Aligned ==
  /\ \A k \in 1..Len(gradients) : gradients[k].of = GradOf(UnpackOrder[k])
  /\ {ZipParams[k] : k \in 1..Len(ZipParams)} = ParamNames
  /\ {GcWeights[k] : k \in 1..Len(GcWeights)} = ParamNames
  /\ (pc = "update" /\ uk <= Len(ZipParams)) =>
        /\ dlocals[ZipGrads[uk]].of = ZipParams[uk]
        /\ MemOf(ZipMems[uk]) = ZipParams[uk]
        /\ Len(dlocals[ZipGrads[uk]].val) = Len(params[ZipParams[uk]])
        /\ Len(mom[ZipMems[uk]]) = Len(params[ZipParams[uk]])
  /\ (pc \in GcTriplePcs) =>
        /\ dlocals[GcGrads[gk]].of = GcWeights[gk]
        /\ GcNames[gk] = GcWeights[gk]
        /\ Len(dlocals[GcGrads[gk]].val) = Len(params[GcWeights[gk]])

C2_Witness ==
  /\ pc = "update" /\ ZipParams[uk] = "Wex" /\ dlocals["dWex"].of = "Wex"
  /\ \E i \in 1..Len(dlocals["dWex"].val) : dlocals["dWex"].val[i] # 0

\* C3: in gradient-check mode at most one parameter element differs from its
\* value before the check, by exactly delta; during the two perturbed forward
\* calls it is the element being checked; at every other forward or backward
\* call, when the checker moves to the next element or tensor, and when the
\* check has finished, every parameter has its original value.
C3_OnePerturbed ==
  option = "gradcheck" =>
    /\ Cardinality(Perturbed) <= 1
    /\ \A e \in Perturbed : Abs(params[e[1]][e[2]] - params0[e[1]][e[2]]) = delta
    /\ (pc \in {"gc_forward", "gc_backward", "gc_zip", "gc_elem", "done"} =>
          params = params0)
    /\ (pc = "gc_forward_plus" =>
          params = [params0 EXCEPT ![GcWeights[gk]][gi + 1] = @ + delta])
    /\ (pc = "gc_forward_minus" =>
          params = [params0 EXCEPT ![GcWeights[gk]][gi + 1] = @ - delta])

C3_Witness ==
  /\ option = "gradcheck" /\ pc = "gc_forward_minus"
  /\ GcWeights[gk] = "Wex" /\ gi = 1
  /\ params["Wex"][2] = params0["Wex"][2] - delta
  /\ params["Wf"] = params0["Wf"]

\* C4: the training loop stops with exactly max_updates Adagrad rounds done
\* and never does more than max_updates rounds.
C4_StopsAtMax ==
  option = "train" =>
    /\ n_updates <= max_updates
    /\ (pc = "done" => n_updates = max_updates)

\* C5: with a corpus shorter than seq_length + 1 characters, or an empty
\* vocabulary, the program never reaches a forward, backward or sample call.
C5_ShortCorpusRejected ==
  (Len(data) < seq_length + 1 \/ vocab_size = 0) => pc \notin CallPcs

\* C6: with clipping (training mode) every element of every gradient tensor
\* backward returns lies in [-5, 5], is the clamped accumulated sum, and is
\* left unchanged by clipping again; without clipping (gradient-check mode)
\* the returned tensors are the accumulated sums themselves.
C6_Clipping ==
  /\ (option = "train" /\ pc \in {"unpack", "update"}) =>
        \A k \in 1..Len(gradients) :
          /\ \A i \in 1..Len(gradients[k].val) :
               gradients[k].val[i] >= -(5 * ONE) /\ gradients[k].val[i] <= 5 * ONE
          /\ clip(gradients[k].val) = gradients[k].val
  /\ (option = "train" /\ pc = "unpack") =>
        \E S \in {backwardSums(params, vocab_size, activations, Len(inputs))} :
          \A k \in 1..Len(gradients) : \A i \in 1..Len(gradients[k].val) :
            gradients[k].val[i] = Max(-(5 * ONE), Min(5 * ONE, S[gradients[k].of][i]))
  /\ (option = "gradcheck" /\ pc = "gc_zip") =>
        \E S \in {backwardSums(params, vocab_size, activations, Len(inputs))} :
          \A k \in 1..Len(gradients) : gradients[k].val = S[gradients[k].of]

C6_Witness ==
  /\ option = "train" /\ pc = "unpack"
  /\ \E S \in {backwardSums(params, vocab_size, activations, Len(inputs))} :
       \E k \in 1..Len(gradients) : \E i \in 1..Len(gradients[k].val) :
         S[gradients[k].of][i] < -(5 * ONE) /\ gradients[k].val[i] = -(5 * ONE)

\* C7: sample returns exactly n indices, each in [0, V); after t steps it has
\* appended t indices and the one-hot input of the next step is the index
\* drawn last (the seed index before the first step).
C7_SampleIndices ==
  pc \in {"sample", "returned"} =>
    /\ Len(result) = s_t /\ s_t <= s_n
    /\ \A k \in 1..Len(result) : result[k] \in 0..(vocab_size - 1)
    /\ s_x = OneHot(IF s_t = 0 THEN inputs[1] ELSE result[s_t], vocab_size)
    /\ (pc = "returned" => sample_ix = result /\ Len(sample_ix) = s_n)

C7_Witness ==
  /\ pc = "returned" /\ s_n = 2 /\ Len(sample_ix) = 2
  /\ sample_ix[1] # sample_ix[2]
  /\ s_x = OneHot(sample_ix[2], vocab_size)

\* C8: forward on chunk A and then on chunk B seeded with the pair returned
\* for A gives the per-timestep hidden and cell states, the final pair and the
\* summed loss of one forward on the concatenation A+B from the same state.
C8_CarryComposes ==
  pc = "compared" =>
    /\ ~resA.raised /\ ~resB.raised /\ ~resAB.raised
    /\ resAB.loss = resA.loss + resB.loss
    /\ resAB.memory = resB.memory
    /\ Len(resAB.steps) = Len(resA.steps) + Len(resB.steps)
    /\ \A t \in 1..Len(resAB.steps) :
         \E s \in {IF t <= Len(resA.steps) THEN resA.steps[t]
                   ELSE resB.steps[t - Len(resA.steps)]} :
           resAB.steps[t].hs = s.hs /\ resAB.steps[t].cs = s.cs

C8_Witness ==
  /\ pc = "compared"
  /\ Len(chunkA.inputs) >= 1 /\ Len(chunkB.inputs) >= 1
  /\ hprev # Zeros(hidden_size) /\ resA.memory # <<hprev, cprev>>
  /\ resB.memory # resA.memory /\ resB.loss > 0

\* C9: no step of forward, backward or sample changes a parameter, a momentum
\* accumulator or the caller's (hprev, cprev); in training mode parameters and
\* momentum change only in the Adagrad update, which leaves the gradients and
\* activations alone, and the activations and gradients it uses were computed
\* from the parameter values of before the update.
C9_Frame ==
  /\ [](option = "train" /\ pc \in {"backward", "unpack"} =>
          forward(params, vocab_size, inputs, targets, <<hprev, cprev>>).steps
            = activations.steps)
  /\ [](option = "train" /\ pc = "unpack" =>
          gradients = backward(params, vocab_size, activations, Len(inputs), TRUE).gradients)
  /\ [][/\ (pc \in CallPcs =>
              params' = params /\ mom' = mom /\ hprev' = hprev /\ cprev' = cprev)
        /\ (option = "train" /\ pc # "main" /\ (params' # params \/ mom' # mom) =>
              /\ pc = "update" /\ uk <= Len(ZipParams)
              /\ gradients' = gradients /\ dlocals' = dlocals
              /\ activations' = activations)]_vars

C9_Witness ==
  /\ option = "train" /\ pc = "update" /\ uk = 5 /\ n = 1
  /\ params # params0 /\ mom["mWf"] # Zeros(Len(mom["mWf"]))

\* C10: for a corpus of at least seq_length + 1 characters, throughout every
\* training iteration inputs and targets have length seq_length, 0 <= p,
\* p + seq_length + 1 <= len(data), inputs[i] is the index of data[p + i] and
\* targets[i] the index of data[p + i + 1].
C10_Chunk ==
  (option = "train" /\ pc \in IterPcs /\ Len(data) >= seq_length + 1) =>
    /\ Len(inputs) = seq_length /\ Len(targets) = seq_length
    /\ 0 <= p /\ p + seq_length + 1 <= Len(data)
    /\ \A i \in 1..seq_length :
         /\ inputs[i] = char_to_ix[data[p + i]]
         /\ targets[i] = char_to_ix[data[p + i + 1]]

C10_Witness ==
  /\ option = "train" /\ pc = "forward" /\ p = seq_length /\ n = 1
  /\ Len(inputs) = seq_length /\ inputs # targets
  /\ targets[seq_length] = char_to_ix[data[p + seq_length + 1]]

====
